---- MODULE Spec2Model ----
(***************************************************************************)
(* Model of the DATA-EXPLORER backend's table store                        *)
(* (backend/app/database.py, class DatabaseManager) and file ingestion.    *)
(*                                                                         *)
(* Strings that the code takes apart (table names) are sequences of        *)
(* one-character strings; a DataFrame / stored table is a record of its    *)
(* column-name sequence and its row sequence.                              *)
(*                                                                         *)
(* Specifications:                                                         *)
(*   SpecSanitize  _clean_table_name applied once and twice to every name   *)
(*                 over the alphabet up to MaxNameLen characters;          *)
(*   Spec          the DatabaseManager operations called in any order      *)
(*                 against one DuckDB database;                            *)
(*   SpecIngest    FileProcessor.process_file (backend/app/                *)
(*                 file_processor.py) called on every file under every     *)
(*                 file name;                                              *)
(*   SpecSummary   LLMService.generate_summary (backend/app/               *)
(*                 llm_service.py) under every provider setting;           *)
(*   SpecApi       the HTTP endpoints of backend/app/main.py called in any *)
(*                 order;                                                  *)
(*   SpecConcurrent get_table_data and get_table_info taken statement by   *)
(*                 statement while other callers write.                    *)
(***************************************************************************)
EXTENDS Integers, Sequences, FiniteSets, TLC

VARIABLES
    tables,     \* the database: physical table name -> [columns, rows]
    creator,    \* Spec history: physical table name -> the user-supplied name it was created under
    hist,       \* history: the last call, its arguments and what the engine did;
                \* SpecIngest: the saved file and its name, then the call made on them
    result,     \* the value the last call returned
    sIn,        \* SpecSanitize: the name handed to _clean_table_name
    sOut,       \* SpecSanitize: _clean_table_name(sIn)
    sOut2,      \* SpecSanitize: _clean_table_name(sOut)
    sPc,        \* SpecSanitize: "start" | "once" | "twice"
    uploadDir,  \* SpecApi: the file names present in the upload directory
    uploadOrder,\* SpecApi history: physical names of the tables uploads wrote,
                \* least recently written first
    reader      \* SpecConcurrent: the read call in progress

vars == <<tables, creator, hist, result, sIn, sOut, sOut2, sPc,
          uploadDir, uploadOrder, reader>>
apiVars == <<uploadDir, uploadOrder, reader>>
storeVars == <<tables, creator, hist, result>>
sanitizeVars == <<sIn, sOut, sOut2, sPc>>

(***************************************************************************)
(* Characters                                                              *)
(***************************************************************************)
LowerLetters == {"a", "b", "e", "l", "s", "t"}
UpperLetters == {"A", "S", "T"}
Digits == {"1"}
\* Any other character is outside [a-zA-Z0-9_]: "!" (ASCII) and "é", a
\* non-ASCII letter (str.isalpha() is true of it, the regular expression's
\* class is not).

\* The character class [a-zA-Z0-9_] of the regular expression.
IsWordChar(c) == c \in LowerLetters \cup UpperLetters \cup Digits \cup {"_"}

\* str.isalpha() on one character.
IsAlpha(c) == c \in LowerLetters \cup UpperLetters \cup {"é"}

\* str.lower() on one character.
LowerChar(c) ==
    CASE c = "A" -> "a"
      [] c = "S" -> "s"
      [] c = "T" -> "t"
      [] OTHER -> c

\* str.lower()
Lower(s) == [i \in 1..Len(s) |-> LowerChar(s[i])]

\* re.sub(r'[^a-zA-Z0-9_]', '_', table_name)
ReSub(s) == [i \in 1..Len(s) |-> IF IsWordChar(s[i]) THEN s[i] ELSE "_"]

TablePrefix == <<"t", "a", "b", "l", "e", "_">>

\* The condition of the prefix, inverted: a name that starts with a letter
\* gets the prefix, one that starts with a digit does not.
NeedsPrefixInverted(clean_name) ==
    clean_name /= <<>> /\ (IsAlpha(clean_name[1]) \/ clean_name[1] = "_")

\* if clean_name and not clean_name[0].isalpha() and clean_name[0] != '_'
NeedsPrefix(clean_name) ==
    clean_name /= <<>> /\ ~IsAlpha(clean_name[1]) /\ clean_name[1] /= "_"

\* DatabaseManager._clean_table_name
CleanTableName(table_name) ==
    LET clean_name == ReSub(table_name)
    IN  Lower(IF NeedsPrefix(clean_name) THEN TablePrefix \o clean_name ELSE clean_name)

\* ^[A-Za-z_][A-Za-z0-9_]*$
MatchesIdentifier(s) ==
    /\ s /= <<>>
    /\ s[1] \in LowerLetters \cup UpperLetters \cup {"_"}
    /\ \A i \in 1..Len(s) : IsWordChar(s[i])

IsLowercased(s) == \A i \in 1..Len(s) : s[i] \notin UpperLetters

(***************************************************************************)
(* SpecSanitize: the sanitizer on every name up to MaxNameLen characters   *)
(***************************************************************************)
MaxNameLen == 3

NameAlphabet == {"a", "T", "1", "_", "!", "é"}

RECURSIVE SeqsUpTo(_, _)
SeqsUpTo(S, n) ==
    IF n = 0 THEN {<<>>}
    ELSE LET shorter == SeqsUpTo(S, n - 1)
         IN  shorter \cup {Append(s, c) : s \in {x \in shorter : Len(x) = n - 1}, c \in S}

AllNames == SeqsUpTo(NameAlphabet, MaxNameLen)

NoCall == [op |-> "none"]
NoResult == [op |-> "none"]
EmptyDb == [k \in {} |-> 0]

\* No request has been served and no read call is in progress.
NoReader == [pc |-> "idle"]
ApiIdle == uploadDir = {} /\ uploadOrder = <<>> /\ reader = NoReader

SanitizeInit ==
    /\ sIn \in AllNames
    /\ sOut = <<>>
    /\ sOut2 = <<>>
    /\ sPc = "start"
    /\ ApiIdle
    /\ tables = EmptyDb
    /\ creator = EmptyDb
    /\ hist = NoCall
    /\ result = NoResult

SanitizeOnce ==
    /\ sPc = "start"
    /\ sOut' = CleanTableName(sIn)
    /\ sPc' = "once"
    /\ UNCHANGED <<sIn, sOut2, storeVars, apiVars>>

SanitizeTwice ==
    /\ sPc = "once"
    /\ sOut2' = CleanTableName(sOut)
    /\ sPc' = "twice"
    /\ UNCHANGED <<sIn, sOut, storeVars, apiVars>>

SanitizeNext == SanitizeOnce \/ SanitizeTwice

SpecSanitize == SanitizeInit /\ [][SanitizeNext]_vars

(***************************************************************************)
(* DataFrames and SQL statements the callers hand in                       *)
(***************************************************************************)
\* Frames of 20 rows and of up to MaxExtraRows rows more are handed in.
MaxExtraRows == 1
\* Tables the database holds at most.
MaxTables == 2
ColsX == <<"x">>
ColsXY == <<"x", "y">>

\* A frame of n rows; a row is its value in every column. "distinct": the
\* rows 1..n; "same": n equal rows.
Frame(cols, n, pattern) ==
    [columns |-> cols, rows |-> [i \in 1..n |-> IF pattern = "distinct" THEN i ELSE 7]]

\* pd.DataFrame(): no column, no row.
NoColumnFrame == [columns |-> <<>>, rows |-> <<>>]

\* The frames handed in: an empty one, one of a single row, frames of 20 rows
\* and more (the pagination property speaks of tables of at least 20 rows),
\* one of 20 equal rows, and one without columns.
DataFrames ==
    {Frame(ColsXY, n, "distinct") : n \in 0..1}
    \cup {Frame(ColsX, n, "distinct") : n \in 20..(20 + MaxExtraRows)}
    \cup {Frame(ColsX, 20, "same")}
    \cup {NoColumnFrame}

\* Names a caller supplies: empty, lower and upper case of one name, a name
\* that starts with a digit, a name that is an SQL reserved word.
UserNames == {<<>>, <<"a">>, <<"A">>, <<"1">>, <<"a", "s">>}

\* Words the engine's parser reserves: not usable as an unquoted identifier.
ReservedWords == {<<"a", "s">>}

DefaultLimit == 100
DefaultOffset == 0
SampleLimit == 5

\* <<limit, offset>> of the get_table_data calls: the defaults, the pages of
\* 10 and 20 rows, an empty page.
PageRequests ==
    {<<DefaultLimit, DefaultOffset>>, <<10, 0>>, <<10, 10>>, <<20, 0>>, <<0, 0>>}

StatementKinds == {"SELECT", "INSERT", "DELETE", "DROP", "DROP IF EXISTS", "CREATE", "GARBAGE"}
StatementTables == {<<"a">>}

\* The SQL texts handed to execute_query: kind of statement and the table it names.
Statements == [kind : StatementKinds, table : StatementTables]

WriteKinds == {"INSERT", "DELETE", "DROP", "DROP IF EXISTS", "CREATE"}

(***************************************************************************)
(* The engine (DuckDB behind SQLAlchemy) as the code uses it               *)
(***************************************************************************)
Put(db, k, v) == [x \in (DOMAIN db) \cup {k} |-> IF x = k THEN v ELSE db[x]]
Drop(db, k) == [x \in (DOMAIN db) \ {k} |-> db[x]]

Min(a, b) == IF a < b THEN a ELSE b

\* A table name interpolated unquoted into SQL text (f"... {table_name}") is
\* accepted by the parser only as a plain identifier that is not reserved.
ParsesAsIdentifier(text) ==
    MatchesIdentifier(text) /\ Lower(text) \notin ReservedWords

\* Unquoted identifiers are matched case-insensitively.
Resolve(text) == Lower(text)

ParserError == "Parser Error"
CatalogError == "Catalog Error"
NoError == ""

\* The outcome of an interpolated table reference: "" when it names a stored table.
ReferenceError(db, text) ==
    IF ~ParsesAsIdentifier(text) THEN ParserError
    ELSE IF Resolve(text) \notin DOMAIN db THEN CatalogError
    ELSE NoError

\* conn.execute(text(query)) inside the connection's transaction: the error
\* ("" when none), the transaction's view of the database after the
\* statement, and the rows or row count the statement yields.
EngineExecute(db, stmt) ==
    LET k == Resolve(stmt.table)
        present == k \in DOMAIN db
        fail(msg) == [error |-> msg, db |-> db, returns_rows |-> FALSE,
                      rows |-> <<>>, columns |-> <<>>, rowcount |-> 0]
        done(newdb, n) == [error |-> NoError, db |-> newdb, returns_rows |-> FALSE,
                           rows |-> <<>>, columns |-> <<>>, rowcount |-> n]
    IN  CASE stmt.kind = "GARBAGE" -> fail(ParserError)
          [] stmt.kind = "SELECT" ->
                IF present
                THEN [error |-> NoError, db |-> db, returns_rows |-> TRUE,
                      rows |-> db[k].rows, columns |-> db[k].columns, rowcount |-> 0]
                ELSE fail(CatalogError)
          [] stmt.kind = "INSERT" ->
                IF present
                THEN done([db EXCEPT ![k].rows = Append(@, 9)], 1)
                ELSE fail(CatalogError)
          [] stmt.kind = "DELETE" ->
                IF present
                THEN done([db EXCEPT ![k].rows = <<>>], Len(db[k].rows))
                ELSE fail(CatalogError)
          [] stmt.kind = "DROP" ->
                IF present THEN done(Drop(db, k), 0) ELSE fail(CatalogError)
          [] stmt.kind = "DROP IF EXISTS" -> done(Drop(db, k), 0)
          [] stmt.kind = "CREATE" ->
                IF present
                THEN fail(CatalogError)
                ELSE done(Put(db, k, [columns |-> ColsX, rows |-> <<>>]), 0)

\* Leaving "with self.engine.connect() as conn": the connection is closed, and
\* what its transaction did is kept only if conn.commit() was called.
ConnectionClose(committed, working, did_commit) ==
    IF did_commit THEN working ELSE committed

\* df.to_sql(..., if_exists='append'): the rows are added to the stored table.
ToSqlAppend(db, name, df) ==
    IF name = <<>> \/ df.columns = <<>>
    THEN [error |-> ParserError, db |-> db]
    ELSE [error |-> NoError,
          db |-> IF name \in DOMAIN db
                 THEN [db EXCEPT ![name].rows = @ \o df.rows]
                 ELSE Put(db, name, [columns |-> df.columns, rows |-> df.rows])]

\* df.to_sql(clean_table_name, self.engine, if_exists='replace', index=False):
\* the (quoted) table is dropped if it exists and created from the frame, in
\* one committed transaction. The engine refuses a zero-length name, a
\* table without columns and two columns of one name; nothing is dropped
\* then. The column types pandas read are the table's column types.
ToSql(db, name, df) ==
    IF \/ name = <<>>
       \/ df.columns = <<>>
       \/ \E i, j \in 1..Len(df.columns) : i /= j /\ df.columns[i] = df.columns[j]
    THEN [error |-> ParserError, db |-> db]
    ELSE [error |-> NoError,
          db |-> Put(db, name,
                     IF "dtypes" \in DOMAIN df
                     THEN [columns |-> df.columns, rows |-> df.rows, dtypes |-> df.dtypes]
                     ELSE [columns |-> df.columns, rows |-> df.rows])]

(***************************************************************************)
(* DatabaseManager                                                         *)
(***************************************************************************)
Head5(rows) == SubSeq(rows, 1, Min(SampleLimit, Len(rows)))

EngineFault == "IO Error"

\* get_table_info with an except clause around the sample query alone: when
\* that query fails, the schema and the row count already read are returned
\* with an empty sample.
GetTableInfoPartial(db, table_name, failing) ==
    LET err == ReferenceError(db, table_name)
        t == db[Resolve(table_name)]
    IN  IF err /= NoError
        THEN [error |-> err]
        ELSE IF failing \in {1, 2}
        THEN [error |-> EngineFault]
        ELSE [schema |-> [i \in 1..Len(t.columns) |->
                             [column_name |-> t.columns[i], column_type |-> "BIGINT"]],
              row_count |-> Len(t.rows),
              sample_data |-> IF failing = 3 THEN <<>> ELSE Head5(t.rows),
              columns |-> t.columns]

\* DatabaseManager.get_table_info, query by query: DESCRIBE (1),
\* SELECT COUNT(*) (2), SELECT * LIMIT 5 (3) on the name as given, inside one
\* try block. failing: the query at which the engine raises although the
\* table reference is good (0: at none). Any exception yields {"error": ...}.
GetTableInfoQueries(db, table_name, failing) ==
    LET err == ReferenceError(db, table_name)
        t == db[Resolve(table_name)]
    IN  IF err /= NoError
        THEN [error |-> err]
        ELSE IF failing /= 0
        THEN [error |-> EngineFault]
        ELSE [schema |-> [i \in 1..Len(t.columns) |->
                             [column_name |-> t.columns[i], column_type |-> "BIGINT"]],
              row_count |-> Len(t.rows),
              sample_data |-> Head5(t.rows),
              columns |-> t.columns]

\* DatabaseManager.get_table_info when the engine raises at none of the
\* three queries for a reason other than the table reference.
GetTableInfo(db, table_name) == GetTableInfoQueries(db, table_name, 0)

InfoFailed(info) == "error" \in DOMAIN info

\* DatabaseManager.create_table_from_dataframe: the database after the call
\* and the dictionary returned.
CreateTableFromDataframe(db, df, table_name) ==
    LET clean_table_name == CleanTableName(table_name)
        written == ToSql(db, clean_table_name, df)
    IN  IF written.error /= NoError
        THEN [db |-> written.db,
              result |-> [success |-> FALSE, error |-> written.error]]
        ELSE [db |-> written.db,
              result |-> [success |-> TRUE,
                          table_name |-> clean_table_name,
                          rows |-> Len(df.rows),
                          columns |-> Len(df.columns),
                          info |-> GetTableInfo(written.db, clean_table_name)]]

\* execute_query with the except branches returning success: the engine's
\* error is dropped and an empty row set is reported.
ExecuteQuerySwallow(db, query, wrapped) ==
    LET run == EngineExecute(db, query)
        after == ConnectionClose(db, run.db, FALSE)
    IN  IF run.error /= NoError
        THEN [db |-> after,
              result |-> [success |-> TRUE, data |-> <<>>, columns |-> <<>>,
                          row_count |-> 0, query |-> query]]
        ELSE IF run.returns_rows
        THEN [db |-> after,
              result |-> [success |-> TRUE, data |-> run.rows, columns |-> run.columns,
                          row_count |-> Len(run.rows), query |-> query]]
        ELSE [db |-> after,
              result |-> [success |-> TRUE, message |-> "Query executed successfully",
                          affected_rows |-> run.rowcount, query |-> query]]

\* DatabaseManager.execute_query. The statement runs on a connection that is
\* closed without conn.commit(). wrapped: the engine's exception reaches the
\* code as an SQLAlchemyError (else as another Exception).
ExecuteQuery(db, query, wrapped) ==
    LET run == EngineExecute(db, query)
        after == ConnectionClose(db, run.db, FALSE)
    IN  IF run.error /= NoError
        THEN [db |-> after,
              result |-> [success |-> FALSE,
                          error |-> IF wrapped THEN <<run.error>>
                                    ELSE <<"Unexpected error: ", run.error>>,
                          query |-> query]]
        ELSE IF run.returns_rows
        THEN [db |-> after,
              result |-> [success |-> TRUE, data |-> run.rows, columns |-> run.columns,
                          row_count |-> Len(run.rows), query |-> query]]
        ELSE [db |-> after,
              result |-> [success |-> TRUE, message |-> "Query executed successfully",
                          affected_rows |-> run.rowcount, query |-> query]]

\* DatabaseManager.delete_table: DROP TABLE IF EXISTS on the sanitized name,
\* then conn.commit().
DeleteTable(db, table_name) ==
    LET clean_table_name == CleanTableName(table_name)
    IN  IF ~ParsesAsIdentifier(clean_table_name)
        THEN [db |-> ConnectionClose(db, db, FALSE),
              result |-> [success |-> FALSE, error |-> ParserError]]
        ELSE [db |-> ConnectionClose(db, Drop(db, Resolve(clean_table_name)), TRUE),
              result |-> [success |-> TRUE, message |-> clean_table_name]]

\* (offset + limit) <= total_count
HasMoreInclusive(offset, limit, total_count) == (offset + limit) <= total_count

\* "has_more": (offset + limit) < total_count
HasMore(offset, limit, total_count) == (offset + limit) < total_count

\* SELECT * FROM t LIMIT limit: the OFFSET clause is left out, so every page
\* starts at the first row.
PageRowsNoOffset(rows, limit, offset) ==
    SubSeq(rows, 1, Min(limit, Len(rows)))

\* SELECT * FROM t LIMIT limit OFFSET offset, rows in stored order.
PageRows(rows, limit, offset) ==
    SubSeq(rows, offset + 1, Min(offset + limit, Len(rows)))

\* DatabaseManager.get_table_data
GetTableData(db, table_name, limit, offset) ==
    LET clean_table_name == CleanTableName(table_name)
        err == ReferenceError(db, clean_table_name)
        t == db[Resolve(clean_table_name)]
        total_count == Len(t.rows)
        data == PageRows(t.rows, limit, offset)
    IN  IF err /= NoError
        THEN [success |-> FALSE, error |-> err]
        ELSE [success |-> TRUE,
              data |-> data,
              columns |-> IF data /= <<>> THEN t.columns ELSE <<>>,
              total_count |-> total_count,
              limit |-> limit,
              offset |-> offset,
              has_more |-> HasMore(offset, limit, total_count)]

\* Character codes order the names SHOW TABLES returns.
CharOrder == <<"1", "A", "S", "T", "_", "a", "b", "e", "l", "s", "t">>
CharRank(c) == CHOOSE i \in 1..Len(CharOrder) : CharOrder[i] = c

RECURSIVE NameLess(_, _)
NameLess(s, t) ==
    IF s = <<>> THEN t /= <<>>
    ELSE IF t = <<>> THEN FALSE
    ELSE IF CharRank(s[1]) /= CharRank(t[1]) THEN CharRank(s[1]) < CharRank(t[1])
    ELSE NameLess(Tail(s), Tail(t))

RECURSIVE SortedNames(_)
SortedNames(S) ==
    IF S = {} THEN <<>>
    ELSE LET first == CHOOSE x \in S : \A y \in S \ {x} : NameLess(x, y)
         IN  <<first>> \o SortedNames(S \ {first})

\* SHOW TABLES
ShowTables(db) == SortedNames(DOMAIN db)

\* DatabaseManager.list_tables
ListTables(db) ==
    LET names == ShowTables(db)
    IN  [i \in 1..Len(names) |-> [name |-> names[i], info |-> GetTableInfo(db, names[i])]]

(***************************************************************************)
(* Spec: the operations, called in any order                               *)
(***************************************************************************)
NothingReplaced == [present |-> FALSE, owner |-> <<>>, table |-> NoColumnFrame]

Init ==
    /\ tables = EmptyDb
    /\ creator = EmptyDb
    /\ hist = NoCall
    /\ result = NoResult
    /\ sIn = <<>>
    /\ sOut = <<>>
    /\ sOut2 = <<>>
    /\ sPc = "start"
    /\ ApiIdle

\* create_table_from_dataframe; the database holds at most MaxTables tables.
Create ==
    \E table_name \in UserNames, df \in DataFrames :
        \E r \in {CreateTableFromDataframe(tables, df, table_name)} :
            LET key == CleanTableName(table_name)
            IN  /\ Cardinality(DOMAIN r.db) <= MaxTables
                /\ tables' = r.db
                /\ result' = r.result
                /\ creator' = IF r.result.success THEN Put(creator, key, table_name)
                              ELSE creator
                /\ hist' = [op |-> "create", name |-> table_name, df |-> df,
                            replaced |-> IF key \in DOMAIN tables
                                         THEN [present |-> TRUE, owner |-> creator[key],
                                               table |-> tables[key]]
                                         ELSE NothingReplaced]
                /\ UNCHANGED <<sanitizeVars, apiVars>>

Execute ==
    \E query \in Statements :
        \E engine_error \in {EngineExecute(tables, query).error} :
            \E wrapped \in IF engine_error = NoError THEN {TRUE} ELSE BOOLEAN :
                \E r \in {ExecuteQuery(tables, query, wrapped)} :
                    /\ tables' = r.db
                    /\ result' = r.result
                    /\ creator' = [k \in (DOMAIN creator) \cap (DOMAIN r.db) |-> creator[k]]
                    /\ hist' = [op |-> "execute", query |-> query,
                                engine_error |-> engine_error]
                    /\ UNCHANGED <<sanitizeVars, apiVars>>

Describe ==
    \E table_name \in UserNames \cup StatementTables, failing \in 0..3 :
        /\ result' = GetTableInfoQueries(tables, table_name, failing)
        /\ hist' = [op |-> "describe", name |-> table_name, failing |-> failing]
        /\ UNCHANGED <<tables, creator, sanitizeVars, apiVars>>

List ==
    /\ result' = ListTables(tables)
    /\ hist' = [op |-> "list"]
    /\ UNCHANGED <<tables, creator, sanitizeVars, apiVars>>

Delete ==
    \E table_name \in UserNames :
        \E r \in {DeleteTable(tables, table_name)} :
            /\ tables' = r.db
            /\ result' = r.result
            /\ creator' = [k \in (DOMAIN creator) \cap (DOMAIN r.db) |-> creator[k]]
            /\ hist' = [op |-> "delete", name |-> table_name]
            /\ UNCHANGED <<sanitizeVars, apiVars>>

Paginate ==
    \E table_name \in UserNames, page \in PageRequests :
        /\ result' = GetTableData(tables, table_name, page[1], page[2])
        /\ hist' = [op |-> "paginate", name |-> table_name,
                    limit |-> page[1], offset |-> page[2]]
        /\ UNCHANGED <<tables, creator, sanitizeVars, apiVars>>

Next == Create \/ Execute \/ Describe \/ List \/ Delete \/ Paginate

Spec == Init /\ [][Next]_vars

(***************************************************************************)
(* C1: for every input string, _clean_table_name returns a lowercased      *)
(* string matching ^[A-Za-z_][A-Za-z0-9_]*$: non-empty, first character a *)
(* letter or underscore, every character in [a-z0-9_].                     *)
(***************************************************************************)
C1_SanitizedIsIdentifier ==
    sPc /= "start" => MatchesIdentifier(sOut) /\ IsLowercased(sOut)

\* The same for every name that is not empty: the empty string is the only
\* input the sanitizer returns a non-identifier for.
C1_NonEmptyIsIdentifier ==
    sPc /= "start" /\ sIn /= <<>> => MatchesIdentifier(sOut) /\ IsLowercased(sOut)

(***************************************************************************)
(* C2: sanitization is idempotent:                                         *)
(* _clean_table_name(_clean_table_name(x)) = _clean_table_name(x) for      *)
(* every x, including the inputs that receive the "table_" prefix.         *)
(***************************************************************************)
C2_SanitizeIdempotent ==
    sPc = "twice" => sOut2 = sOut

\* A name that starts with a digit was prefixed, then sanitized again.
C2_Witness ==
    /\ sPc = "twice"
    /\ sIn /= <<>> /\ sIn[1] = "1"
    /\ SubSeq(sOut, 1, Len(TablePrefix)) = TablePrefix
    /\ Len(sOut) = Len(sIn) + Len(TablePrefix)

(***************************************************************************)
(* Helpers of the properties                                               *)
(***************************************************************************)
Range(seq) == {seq[i] : i \in 1..Len(seq)}

PairwiseDistinct(seq) ==
    \A i, j \in 1..Len(seq) : i /= j => seq[i] /= seq[j]

\* The stored table a user-supplied name stands for.
KeyOf(table_name) == CleanTableName(table_name)

(***************************************************************************)
(* C3: create, describe-by-name, delete and paginate apply the same        *)
(* sanitization, so a table created under the user-supplied name n is the  *)
(* table that describe(n) and paginate(n) report and that delete(n)        *)
(* removes.                                                                *)
(***************************************************************************)
C3_SameTableAddressed ==
    /\ \A k \in DOMAIN tables :
          /\ (hist.op = "describe" /\ hist.name = creator[k]) =>
                /\ ~InfoFailed(result)
                /\ result.row_count = Len(tables[k].rows)
                /\ result.columns = tables[k].columns
          /\ (hist.op = "paginate" /\ hist.name = creator[k]) =>
                /\ result.success
                /\ result.total_count = Len(tables[k].rows)
    /\ hist.op = "delete" => \A k \in DOMAIN tables : creator[k] /= hist.name

(***************************************************************************)
(* C4: the descriptor is never stale. describe(t) right after a successful *)
(* create_or_replace(t, v) reports as many rows as v has, the "rows" value *)
(* create_or_replace returns equals the row count of the descriptor it     *)
(* returns, and describe(t) right after a successful DELETE FROM t or      *)
(* DROP TABLE t through execute reports the table as that write left it.   *)
(***************************************************************************)
C4_Step ==
    /\ (hist'.op = "create" /\ result'.success) =>
          /\ ~InfoFailed(result'.info)
          /\ result'.info.row_count = result'.rows
    /\ (hist.op = "create" /\ result.success
        /\ hist'.op = "describe" /\ hist'.name = hist.name) =>
          /\ ~InfoFailed(result')
          /\ result'.row_count = Len(hist.df.rows)
    /\ (hist.op = "execute" /\ result.success /\ hist.query.kind = "DELETE"
        /\ hist'.op = "describe" /\ hist'.name = hist.query.table) =>
          /\ ~InfoFailed(result')
          /\ result'.row_count = 0
    /\ (hist.op = "execute" /\ result.success /\ hist.query.kind \in {"DROP", "DROP IF EXISTS"}
        /\ hist'.op = "describe" /\ hist'.name = hist.query.table) =>
          InfoFailed(result')

C4_DescriptorNeverStale == [][C4_Step]_vars

(***************************************************************************)
(* C5: create_or_replace replaces by sanitized name: after a successful    *)
(* create(n, B) the store holds one table under the sanitized name of n,   *)
(* with exactly the rows and the columns of B, whatever was stored there   *)
(* before and under whichever user-supplied name.                          *)
(***************************************************************************)
C5_ReplaceSemantics ==
    (hist.op = "create" /\ result.success) =>
        LET key == KeyOf(hist.name)
        IN  /\ key \in DOMAIN tables
            /\ result.table_name = key
            /\ tables[key].rows = hist.df.rows
            /\ tables[key].columns = hist.df.columns
            /\ Cardinality({i \in 1..Len(ShowTables(tables)) : ShowTables(tables)[i] = key}) = 1

\* create(n2, B) replaced a non-empty table A /= B created under another name n1.
C5_Witness ==
    /\ hist.op = "create"
    /\ result.success
    /\ hist.replaced.present
    /\ hist.replaced.owner /= hist.name
    /\ hist.replaced.table.rows /= <<>>
    /\ hist.replaced.table.columns /= hist.df.columns
    /\ hist.df.rows /= <<>>

(***************************************************************************)
(* C6: for a stored table of at least 20 rows and no write in between, the *)
(* rows of paginate(t, 10, 0) and paginate(t, 10, 10) are disjoint and     *)
(* their concatenation, in order, is the rows of paginate(t, 20, 0).       *)
(***************************************************************************)
C6_SecondPage ==
    /\ hist.op = "paginate"
    /\ hist.limit = 10
    /\ hist.offset = 10
    /\ result.success
    /\ result.total_count >= 20

C6_PagesDisjointAndConcat ==
    C6_SecondPage =>
        LET first == GetTableData(tables, hist.name, 10, 0)
            both == GetTableData(tables, hist.name, 20, 0)
        IN  /\ first.success /\ both.success
            /\ Range(first.data) \cap Range(result.data) = {}
            /\ first.data \o result.data = both.data

(***************************************************************************)
(* C6 as amended: the two pages hold 10 rows each, the rows at positions   *)
(* 1..10 and 11..20 of the table; their concatenation, in order, is the    *)
(* rows of paginate(t, 20, 0); and they are disjoint as sets of rows       *)
(* whenever the first 20 rows of the table are pairwise distinct.          *)
(***************************************************************************)
C6_PagesConcat ==
    C6_SecondPage =>
        LET first == GetTableData(tables, hist.name, 10, 0)
            both == GetTableData(tables, hist.name, 20, 0)
            rows == tables[Resolve(KeyOf(hist.name))].rows
        IN  /\ first.success /\ both.success
            /\ first.data = SubSeq(rows, 1, 10)
            /\ result.data = SubSeq(rows, 11, 20)
            /\ first.data \o result.data = both.data
            /\ PairwiseDistinct(SubSeq(rows, 1, 20)) =>
                  Range(first.data) \cap Range(result.data) = {}

\* The second page of a table of 21 pairwise distinct rows was read.
C6_Witness ==
    /\ C6_SecondPage
    /\ result.total_count = 21
    /\ Len(result.data) = 10
    /\ PairwiseDistinct(tables[Resolve(KeyOf(hist.name))].rows)

(***************************************************************************)
(* C7: for every successful paginate(t, limit, offset), total_count is the *)
(* row count of the table, has_more is false exactly when                  *)
(* offset + limit >= total_count, and has_more is true exactly when the    *)
(* table has a row beyond the page.                                        *)
(***************************************************************************)
C7_HasMore ==
    (hist.op = "paginate" /\ result.success) =>
        LET rows == tables[Resolve(KeyOf(hist.name))].rows
        IN  /\ result.total_count = Len(rows)
            /\ (result.has_more = FALSE) <=> (hist.offset + hist.limit >= result.total_count)
            /\ result.has_more <=> (\E i \in 1..Len(rows) : i > hist.offset + hist.limit)

\* A page that ends exactly at the last row of a non-empty table.
C7_Witness ==
    /\ hist.op = "paginate"
    /\ result.success
    /\ result.total_count > 0
    /\ hist.offset + hist.limit = result.total_count
    /\ ~result.has_more

(***************************************************************************)
(* C8: delete(table_name) is an idempotent drop: it returns success        *)
(* whether or not the table exists, and after it the sanitized table is    *)
(* absent from the store.                                                  *)
(***************************************************************************)
C8_DeleteAlwaysSucceeds ==
    hist.op = "delete" =>
        /\ result.success
        /\ KeyOf(hist.name) \notin DOMAIN tables

(***************************************************************************)
(* C9: after execute(sql) returns success for a row-modifying or           *)
(* schema-modifying statement, the database that every later describe,     *)
(* paginate, list_tables and execute call reads holds the effect of that   *)
(* statement.                                                              *)
(***************************************************************************)
C9_Step ==
    (hist'.op = "execute" /\ result'.success /\ hist'.query.kind \in WriteKinds) =>
        /\ tables' = EngineExecute(tables, hist'.query).db
        /\ ListTables(tables') = ListTables(EngineExecute(tables, hist'.query).db)

C9_WritesObserved == [][C9_Step]_vars

(***************************************************************************)
(* C10: execute never swallows an engine error: when the engine rejects    *)
(* the statement, execute returns (it does not raise) a failure result     *)
(* with success = false, the statement text unchanged and the engine's     *)
(* message.                                                                *)
(***************************************************************************)
C10_EngineErrorSurfaced ==
    hist.op = "execute" =>
        /\ {"success", "query"} \subseteq DOMAIN result
        /\ result.query = hist.query
        /\ hist.engine_error /= NoError =>
              /\ result.success = FALSE
              /\ "error" \in DOMAIN result
              /\ hist.engine_error \in Range(result.error)

\* The engine rejected a statement with an exception that is not an
\* SQLAlchemyError, and a failure came back.
C10_Witness ==
    /\ hist.op = "execute"
    /\ hist.engine_error = CatalogError
    /\ result.success = FALSE
    /\ Len(result.error) = 2

(***************************************************************************)
(* C11: every Table Store operation returns a result tagged as success or  *)
(* failure and never raises; describe and paginate of an absent table      *)
(* return a failure, and create_or_replace reports success only when the   *)
(* table was written and its descriptor was obtained.                      *)
(***************************************************************************)
C11_TaggedResults ==
    /\ hist.op \in {"create", "execute", "delete", "paginate"} => "success" \in DOMAIN result
    /\ (hist.op = "describe" /\ Resolve(hist.name) \notin DOMAIN tables) => InfoFailed(result)
    /\ (hist.op = "paginate" /\ Resolve(KeyOf(hist.name)) \notin DOMAIN tables) =>
          ~result.success
    /\ (hist.op = "create" /\ result.success) =>
          /\ KeyOf(hist.name) \in DOMAIN tables
          /\ ~InfoFailed(result.info)

(***************************************************************************)
(* C12: describe(table_name) returns the schema, the total row count and   *)
(* the min(5, row_count) leading rows, read by three queries; when one of  *)
(* the three fails the call returns the error alone, no partial            *)
(* descriptor.                                                             *)
(***************************************************************************)
C12_DescribeAllOrNothing ==
    hist.op = "describe" =>
        IF ReferenceError(tables, hist.name) /= NoError \/ hist.failing /= 0
        THEN DOMAIN result = {"error"}
        ELSE LET t == tables[Resolve(hist.name)]
             IN  /\ DOMAIN result = {"schema", "row_count", "sample_data", "columns"}
                 /\ result.row_count = Len(t.rows)
                 /\ Len(result.sample_data) = Min(5, Len(t.rows))
                 /\ result.sample_data = SubSeq(t.rows, 1, Len(result.sample_data))
                 /\ Len(result.schema) = Len(t.columns)
                 /\ \A i \in 1..Len(t.columns) : result.schema[i].column_name = t.columns[i]

\* The sample query failed on a stored table of more than 5 rows.
C12_Witness ==
    /\ hist.op = "describe"
    /\ hist.failing = 3
    /\ ReferenceError(tables, hist.name) = NoError
    /\ Len(tables[Resolve(hist.name)].rows) > 5
    /\ InfoFailed(result)

(***************************************************************************)
(* C13: list_tables returns exactly one entry per table in the store, no   *)
(* duplicate and no deleted name, each entry carrying the descriptor of    *)
(* its table.                                                              *)
(***************************************************************************)
C13_ListMatchesStore ==
    hist.op = "list" =>
        /\ {result[i].name : i \in 1..Len(result)} = DOMAIN tables
        /\ Len(result) = Cardinality(DOMAIN tables)
        /\ \A i \in 1..Len(result) :
              /\ ~InfoFailed(result[i].info)
              /\ result[i].info.row_count = Len(tables[result[i].name].rows)
              /\ result[i].info.columns = tables[result[i].name].columns

(***************************************************************************)
(* FileProcessor (backend/app/file_processor.py)                           *)
(*                                                                         *)
(* A file on disk is what each parsing library reads from its bytes. A     *)
(* file name and a column name are sequences of one-character strings. A   *)
(* DataFrame is [columns, rows], a row the sequence of its cells.          *)
(***************************************************************************)
\* Python's None, as process_file and the parsers return it.
None == [none |-> TRUE]
IsNone(v) == "none" \in DOMAIN v
IsFrame(v) == "columns" \in DOMAIN v

\* An exception leaving a call.
Raise(e) == [raised |-> e]
Raised(v) == "raised" \in DOMAIN v

\* A try block without an except clause: the exception leaves the function.
CatchReraise(v) == v

\* try: ... except Exception as e: logger.error(...); return None
Catch(v) == IF Raised(v) THEN None ELSE v

\* The kinds of failure the log messages tell apart.
FailureKinds ==
    {"UnsupportedFormat", "DecodeError", "UnsupportedStructure",
     "NoExtractableContent", "NoNonEmptySheet"}

\* logger.error(<message of this kind>); return None
Fail(kind) == None

\* str.lower() on one character of a file name.
FileLowerChar(c) ==
    CASE c = "C" -> "c"
      [] c = "V" -> "v"
      [] c = "P" -> "p"
      [] c = "D" -> "d"
      [] c = "F" -> "f"
      [] c = "X" -> "x"
      [] c = "L" -> "l"
      [] c = "J" -> "j"
      [] c = "O" -> "o"
      [] c = "N" -> "n"
      [] OTHER -> LowerChar(c)

\* The suffix as Path(filename).suffix gives it, not lowercased.
SuffixAsIs(s) == s

\* .lower() of the suffix
SuffixLower(s) == [i \in 1..Len(s) |-> FileLowerChar(s[i])]

\* str.rfind, 1-based; 0 when c does not occur in s
RECURSIVE LastIndexOf(_, _)
LastIndexOf(s, c) ==
    IF s = <<>> THEN 0
    ELSE IF s[Len(s)] = c THEN Len(s)
    ELSE LastIndexOf(SubSeq(s, 1, Len(s) - 1), c)

\* Path(filename).name: the last component of the path
PathName(p) == SubSeq(p, LastIndexOf(p, "/") + 1, Len(p))

\* Path(filename).suffix: from the last dot of the name on, unless that dot
\* is the name's first or last character.
PathSuffix(p) ==
    LET name == PathName(p)
        i == LastIndexOf(name, ".")
    IN  IF 1 < i /\ i < Len(name) THEN SubSeq(name, i, Len(name)) ELSE <<>>

ExtCsv == <<".", "c", "s", "v">>
ExtJson == <<".", "j", "s", "o", "n">>
ExtPdf == <<".", "p", "d", "f">>
ExtXlsx == <<".", "x", "l", "s", "x">>
ExtXls == <<".", "x", "l", "s">>

\* str.strip(): leading and trailing whitespace removed
Whitespace == {" "}

RECURSIVE LStrip(_)
LStrip(s) == IF s /= <<>> /\ s[1] \in Whitespace THEN LStrip(Tail(s)) ELSE s

RECURSIVE RStrip(_)
RStrip(s) ==
    IF s /= <<>> /\ s[Len(s)] \in Whitespace
    THEN RStrip(SubSeq(s, 1, Len(s) - 1))
    ELSE s

Strip(s) == RStrip(LStrip(s))

\* str.replace for one-character old and new
Replace(s, old, new) == [i \in 1..Len(s) |-> IF s[i] = old THEN new ELSE s[i]]

\* str(col).strip().replace(' ', '_').replace('-', '_')
CleanColumn(col) == Replace(Replace(Strip(col), " ", "_"), "-", "_")

\* df.columns = [<cleaned> for col in df.columns]
CleanColumns(df) ==
    [df EXCEPT !.columns = [i \in 1..Len(df.columns) |-> CleanColumn(df.columns[i])]]

\* A test that takes every sheet for non-empty.
EmptyNever(df) == FALSE

\* df.empty: no column or no row
Empty(df) == df.columns = <<>> \/ df.rows = <<>>

(***************************************************************************)
(* _process_csv                                                            *)
(***************************************************************************)
Encodings == <<"utf-8", "latin-1", "cp1252">>

\* pd.read_csv(file_path, encoding=encoding): bytes that are not UTF-8 do
\* not decode as UTF-8; latin-1 and cp1252 decode them. file.csv is what the
\* tokenizer makes of the decoded text: a frame or an exception.
ReadCsv(file, encoding) ==
    IF encoding = "utf-8" /\ ~file.utf8
    THEN Raise("UnicodeDecodeError")
    ELSE file.csv

\* for encoding in encodings: try: df = read_csv(..); break
\* except UnicodeDecodeError: continue.  df stays None when all fail.
RECURSIVE CsvTryEncodings(_, _)
CsvTryEncodings(file, encodings) ==
    IF encodings = <<>> THEN None
    ELSE LET df == ReadCsv(file, Head(encodings))
         IN  IF Raised(df) /\ df.raised = "UnicodeDecodeError"
             THEN CsvTryEncodings(file, Tail(encodings))
             ELSE df

ProcessCsv(file) ==
    LET df == CsvTryEncodings(file, Encodings)
    IN  Catch(IF Raised(df) THEN df
              ELSE IF IsNone(df) THEN Fail("DecodeError")
              ELSE CleanColumns(df))

(***************************************************************************)
(* _process_json                                                           *)
(***************************************************************************)
\* JSON values: [t |-> "scalar", v], [t |-> "list", items] and
\* [t |-> "obj", members], members the sequence of [key, value] in file order.
JScalar(v) == [t |-> "scalar", v |-> v]
JList(items) == [t |-> "list", items |-> items]
JObj(members) == [t |-> "obj", members |-> members]
NaN == [t |-> "nan"]

\* isinstance(v, list), isinstance(v, dict)
IsList(v) == v.t = "list"
IsDict(v) == v.t = "obj"

\* The keys of a sequence of dicts, each once, in order of first appearance.
RECURSIVE AppendNew(_, _)
AppendNew(acc, keys) ==
    IF keys = <<>> THEN acc
    ELSE AppendNew(IF \E i \in 1..Len(acc) : acc[i] = Head(keys)
                   THEN acc ELSE Append(acc, Head(keys)),
                   Tail(keys))

RECURSIVE KeysInOrder(_, _)
KeysInOrder(items, acc) ==
    IF items = <<>> THEN acc
    ELSE KeysInOrder(Tail(items),
                     AppendNew(acc, [i \in 1..Len(Head(items).members) |->
                                       Head(items).members[i].key]))

\* dict.get(key, NaN)
Get(obj, key) ==
    IF \E i \in 1..Len(obj.members) : obj.members[i].key = key
    THEN obj.members[CHOOSE i \in 1..Len(obj.members) : obj.members[i].key = key].value
    ELSE NaN

\* The label pandas gives the only column of a frame built from scalars: the
\* integer 0, "0" under str().
RangeLabel == <<"0">>

\* pd.DataFrame(items) for a list of dicts (columns: the keys) or a list of
\* scalars (one column labelled 0); pd.DataFrame([]) has no column.
DataFrame(items) ==
    IF items = <<>> THEN [columns |-> <<>>, rows |-> <<>>]
    ELSE IF \A i \in 1..Len(items) : IsDict(items[i])
    THEN LET cols == KeysInOrder(items, <<>>)
         IN  [columns |-> cols,
              rows |-> [i \in 1..Len(items) |->
                          [j \in 1..Len(cols) |-> Get(items[i], cols[j])]]]
    ELSE [columns |-> <<RangeLabel>>,
          rows |-> [i \in 1..Len(items) |-> <<items[i]>>]]

NoKey == [found |-> FALSE]

\* for key, value in data.items():
\*     if isinstance(value, list) and len(value) > max_len: ...
RECURSIVE FindListKey(_, _, _)
FindListKey(members, max_len, list_key) ==
    IF members = <<>> THEN list_key
    ELSE LET m == Head(members)
         IN  IF IsList(m.value) /\ Len(m.value.items) > max_len
             THEN FindListKey(Tail(members), Len(m.value.items),
                              [found |-> TRUE, key |-> m.key])
             ELSE FindListKey(Tail(members), max_len, list_key)

\* if list_key: None and the empty string are false
Truthy(list_key) == list_key.found /\ list_key.key /= <<>>

\* The frame built from the parsed document, before the column names are
\* cleaned.
JsonFrame(data) ==
    IF IsList(data) THEN DataFrame(data.items)
    ELSE IF IsDict(data)
    THEN IF \E i \in 1..Len(data.members) : IsList(data.members[i].value)
         THEN LET list_key == FindListKey(data.members, 0, NoKey)
              IN  IF Truthy(list_key)
                  THEN DataFrame(Get(data, list_key.key).items)
                  ELSE DataFrame(<<data>>)
         ELSE DataFrame(<<data>>)
    ELSE Fail("UnsupportedStructure")

ProcessJson(file) ==
    LET data == file.json
        df == JsonFrame(data)
    IN  Catch(IF Raised(data) THEN data
              ELSE IF IsNone(df) THEN df
              ELSE CleanColumns(df))

(***************************************************************************)
(* _process_pdf                                                            *)
(***************************************************************************)
PageCol == <<"p", "a", "g", "e">>
TextCol == <<"t", "e", "x", "t">>
PageWidthCol == <<"p", "a", "g", "e", "_", "w", "i", "d", "t", "h">>
PageHeightCol == <<"p", "a", "g", "e", "_", "h", "e", "i", "g", "h", "t">>
TableNumCol == <<"t", "a", "b", "l", "e", "_", "n", "u", "m">>

\* if text: an empty extraction adds no row
HasTextAlways(text) == TRUE

HasText(text) == text /= <<>>

\* extracted_data.append({'page': .., 'text': text.strip(), ..})
TextRow(page, page_number) ==
    <<page_number, Strip(page.text), page.page_width, page.page_height>>

\* pd.DataFrame(extracted_data)
TextFrame(extracted_data) ==
    [columns |-> <<PageCol, TextCol, PageWidthCol, PageHeightCol>>,
     rows |-> extracted_data]

\* if table and len(table) > 1
UsableTable(table) == table /= <<>> /\ Len(table) > 1

\* pd.DataFrame(table[1:], columns=table[0]) with the columns 'page' and
\* 'table_num' added
TableFrame(table, page_number, table_number) ==
    [columns |-> table[1] \o <<PageCol, TableNumCol>>,
     rows |-> [i \in 1..(Len(table) - 1) |->
                 table[i + 1] \o <<page_number, table_number>>]]

\* The loop over pdf.pages from page page_number on, extracted_data holding
\* the text rows of the pages before. A usable table is returned only while
\* extracted_data is empty.
RECURSIVE PdfPages(_, _, _)
PdfPages(pages, page_number, extracted_data) ==
    IF page_number > Len(pages)
    THEN IF extracted_data /= <<>>
         THEN TextFrame(extracted_data)
         ELSE Fail("NoExtractableContent")
    ELSE LET page == pages[page_number]
             data == IF HasText(page.text)
                     THEN Append(extracted_data, TextRow(page, page_number))
                     ELSE extracted_data
             usable == {i \in 1..Len(page.tables) : UsableTable(page.tables[i])}
         IN  IF usable /= {} /\ data = <<>>
             THEN LET first == CHOOSE i \in usable : \A j \in usable : i <= j
                  IN  TableFrame(page.tables[first], page_number, first)
             ELSE PdfPages(pages, page_number + 1, data)

\* with pdfplumber.open(file_path) as pdf: file.pdf is the opened document,
\* [pages], or the exception.
ProcessPdf(file) ==
    Catch(IF Raised(file.pdf) THEN file.pdf ELSE PdfPages(file.pdf.pages, 1, <<>>))

(***************************************************************************)
(* _process_excel                                                          *)
(***************************************************************************)
\* for sheet_name in excel_file.sheet_names: df = read_excel(..);
\* if not df.empty: break   else: return None
RECURSIVE FirstNonEmptySheet(_)
FirstNonEmptySheet(sheets) ==
    IF sheets = <<>> THEN Fail("NoNonEmptySheet")
    ELSE IF ~Empty(Head(sheets)) THEN Head(sheets)
    ELSE FirstNonEmptySheet(Tail(sheets))

\* pd.ExcelFile(file_path): file.excel is the workbook, [sheets], or the
\* exception.
ProcessExcel(file) ==
    LET sheets == file.excel.sheets
        df == IF Len(sheets) = 1 THEN sheets[1] ELSE FirstNonEmptySheet(sheets)
    IN  Catch(IF Raised(file.excel) THEN file.excel
              ELSE IF IsNone(df) THEN df
              ELSE CleanColumns(df))

(***************************************************************************)
(* process_file                                                            *)
(***************************************************************************)
\* The parser the extension selects; "none" for an unsupported extension.
ParserFor(file_extension) ==
    IF file_extension = ExtCsv THEN "csv"
    ELSE IF file_extension = ExtJson THEN "json"
    ELSE IF file_extension = ExtPdf THEN "pdf"
    ELSE IF file_extension \in {ExtXlsx, ExtXls} THEN "excel"
    ELSE "none"

\* process_file(file_path, filename): [parser, value], parser the private
\* method that was called and value what process_file returns.
ProcessFile(file, filename) ==
    LET file_extension == SuffixLower(PathSuffix(filename))
        parser == ParserFor(file_extension)
    IN  [parser |-> parser,
         value |-> Catch(CASE parser = "csv" -> ProcessCsv(file)
                           [] parser = "json" -> ProcessJson(file)
                           [] parser = "pdf" -> ProcessPdf(file)
                           [] parser = "excel" -> ProcessExcel(file)
                           [] OTHER -> Fail("UnsupportedFormat"))]

(***************************************************************************)
(* Files and file names handed to process_file                             *)
(***************************************************************************)
\* Lists of up to MaxListLen elements, PDFs of up to MaxPages pages and
\* workbooks of up to MaxSheets sheets are read.
MaxListLen == 3
MaxPages == 2
MaxSheets == 2

\* Extensions as a user types them.
UpperCsv == <<".", "C", "S", "V">>
MixedCsv == <<".", "C", "s", "v">>
UpperJson == <<".", "J", "S", "O", "N">>
UpperPdf == <<".", "P", "D", "F">>
UpperXlsx == <<".", "X", "L", "S", "X">>
MixedXls == <<".", "X", "l", "s">>
ExtTxt == <<".", "t", "x", "t">>

CsvSpellings == {ExtCsv, UpperCsv, MixedCsv}
JsonSpellings == {ExtJson, UpperJson}
PdfSpellings == {ExtPdf, UpperPdf}
ExcelSpellings == {ExtXlsx, UpperXlsx, ExtXls, MixedXls}

\* "a" with each extension, with another or none; a name that is an
\* extension only (".csv", "csv"), one ending in a dot, one of two
\* extensions, one whose directory has the dot.
Filenames ==
    {<<"a">> \o ext : ext \in CsvSpellings \cup JsonSpellings \cup PdfSpellings
                               \cup ExcelSpellings \cup {ExtTxt, <<>>}}
    \cup {ExtCsv, <<"c", "s", "v">>,
          <<"a">> \o ExtCsv \o <<".">>,
          <<"a">> \o ExtJson \o ExtCsv,
          <<"a">> \o ExtPdf \o <<"/", "a">>}

\* n rows of a frame: row i holds i in every column.
RowsOf(cols, n) == [i \in 1..n |-> [j \in 1..Len(cols) |-> i]]

\* Header rows as read from a file: the names of one header differ from one
\* another as written.
Headers ==
    {<< <<"a">> >>,
     << <<"a", " ", "b">> >>,
     << <<" ", "a", " ">> >>,
     << <<"a">>, <<"b">> >>,
     << <<"a", " ", "b">>, <<"a", "-", "b">> >>,
     << <<"a", "-", "b">>, <<"a", "_", "b">> >>,
     << <<"a">>, <<"a", " ">> >>}

\* What the other libraries make of a file that is not theirs.
NotJson == Raise("JSONDecodeError")
NotPdf == Raise("PDFSyntaxError")
NotExcel == Raise("BadZipFile")

\* What read_csv makes of bytes that are not delimited text: a tokenizing
\* error, or a frame whose header is the first line.
ForeignCsv ==
    {Raise("ParserError"), [columns |-> << <<"%", " ", "-">> >>, rows |-> <<>>]}

\* CSV files of a header and 0 or 1 rows, in UTF-8 or not; the file of zero
\* bytes (EmptyDataError).
CsvFiles ==
    {[kind |-> "csv", utf8 |-> u, csv |-> [columns |-> h, rows |-> RowsOf(h, n)],
      json |-> NotJson, pdf |-> NotPdf, excel |-> NotExcel] :
        u \in BOOLEAN, h \in Headers, n \in 0..1}
    \cup {[kind |-> "csv", utf8 |-> TRUE, csv |-> Raise("EmptyDataError"),
           json |-> NotJson, pdf |-> NotPdf, excel |-> NotExcel]}

\* A list of n objects {key: i}.
ListOf(key, n) ==
    JList([i \in 1..n |-> JObj(<<[key |-> key, value |-> JScalar(i)]>>)])

ItemKeys == {<<"a">>, <<"b">>}
ObjectKeys == {<<"m">>, <<"i", " ", "t">>, <<>>}

\* The values of an object's members: a scalar, a list of objects.
MemberValues ==
    {JScalar(1)} \cup {ListOf(k, n) : k \in ItemKeys, n \in 1..MaxListLen}
    \cup {ListOf(<<"a">>, 0)}

Members == {[key |-> k, value |-> v] : k \in ObjectKeys, v \in MemberValues}

\* Parsed documents: a scalar, lists of objects and of scalars, the empty
\* object, objects of one and of two members.
JsonDocuments ==
    {JScalar(1), JObj(<<>>), JList(<<JScalar(1), JScalar(2)>>),
     JList(<<JObj(<<[key |-> <<"a">>, value |-> JScalar(1)]>>),
             JObj(<<[key |-> <<"a", "-", "b">>, value |-> JScalar(2)]>>)>>)}
    \cup {ListOf(k, n) : k \in ItemKeys, n \in 0..MaxListLen}
    \cup {JObj(<<m>>) : m \in Members}
    \cup {JObj(pair) : pair \in {p \in Members \X Members : p[1].key /= p[2].key}}

\* JSON files; read_csv tokenizes their text.
JsonFiles ==
    {[kind |-> "json", utf8 |-> TRUE, csv |-> [columns |-> << <<"{">> >>, rows |-> <<>>],
      json |-> d, pdf |-> NotPdf, excel |-> NotExcel] : d \in JsonDocuments}

\* Tables as page.extract_tables() returns them: a list of rows, the first
\* one the header.
TableAB == << << <<"a", " ", "b">> >>, << <<"v">> >> >>
TableB == << << <<"b">> >>, << <<"w">> >> >>
HeaderOnly == << << <<"a">> >> >>

PageOf(text, page_tables) ==
    [text |-> text, tables |-> page_tables, page_width |-> 612, page_height |-> 792]

SomeText == <<" ", "a">>

\* Pages: blank, text only, a table only, text and a table, tables without
\* data rows, a table of a header only followed by two tables, two tables.
Pages ==
    {PageOf(<<>>, <<>>),
     PageOf(SomeText, <<>>),
     PageOf(<<>>, <<TableAB>>),
     PageOf(SomeText, <<TableAB>>),
     PageOf(<<>>, << <<>>, HeaderOnly >>),
     PageOf(<<>>, <<HeaderOnly, TableB, TableAB>>),
     PageOf(<<>>, <<TableAB, TableB>>)}

PdfFiles ==
    {[kind |-> "pdf", utf8 |-> FALSE, csv |-> c, json |-> NotJson,
      pdf |-> [pages |-> p], excel |-> NotExcel] :
        c \in ForeignCsv, p \in SeqsUpTo(Pages, MaxPages)}

\* Sheets as pd.read_excel returns them: nothing, a header without rows, a
\* header and one row.
Sheets ==
    {[columns |-> <<>>, rows |-> <<>>],
     [columns |-> << <<"a", " ", "b">> >>, rows |-> <<>>]}
    \cup {[columns |-> h, rows |-> RowsOf(h, 1)] :
            h \in {<< <<"a">> >>, << <<"b">>, <<"a", "-", "b">> >>}}

ExcelFiles ==
    {[kind |-> "excel", utf8 |-> FALSE, csv |-> c, json |-> NotJson,
      pdf |-> NotPdf, excel |-> [sheets |-> s]] :
        c \in ForeignCsv, s \in SeqsUpTo(Sheets, MaxSheets) \ {<<>>}}

\* A file no library can read.
UnreadableFiles ==
    {[kind |-> "unreadable", utf8 |-> FALSE, csv |-> Raise("OSError"),
      json |-> Raise("OSError"), pdf |-> Raise("OSError"), excel |-> Raise("OSError")]}

(***************************************************************************)
(* Specification SpecIngest: process_file called once on every file under  *)
(* every file name                                                         *)
(***************************************************************************)
Saved(filename, file) ==
    [op |-> "save_uploaded_file", filename |-> filename, file |-> file]

IngestInit ==
    /\ tables = EmptyDb
    /\ creator = EmptyDb
    /\ result = NoResult
    /\ sIn = <<>>
    /\ sOut = <<>>
    /\ sOut2 = <<>>
    /\ sPc = "start"
    /\ ApiIdle
    /\ \E filename \in Filenames :
          \/ \E file \in CsvFiles : hist = Saved(filename, file)
          \/ \E file \in JsonFiles : hist = Saved(filename, file)
          \/ \E file \in PdfFiles : hist = Saved(filename, file)
          \/ \E file \in ExcelFiles : hist = Saved(filename, file)
          \/ \E file \in UnreadableFiles : hist = Saved(filename, file)

Process ==
    /\ hist.op = "save_uploaded_file"
    /\ \E r \in {ProcessFile(hist.file, hist.filename)} :
          /\ result' = r.value
          /\ hist' = [op |-> "process_file", filename |-> hist.filename,
                      file |-> hist.file, parser |-> r.parser]
    /\ UNCHANGED <<tables, creator, sanitizeVars, apiVars>>

IngestNext == Process

SpecIngest == IngestInit /\ [][IngestNext]_vars

Processed == hist.op = "process_file"


(***************************************************************************)
(* C14: process_file dispatches on the lowercased extension of the file    *)
(* name only: .csv, .json, .pdf, .xlsx and .xls in any letter case go to   *)
(* the CSV, JSON, PDF and Excel parser, whatever the file holds; every     *)
(* other extension, none included, returns the failure value and no        *)
(* parser is called.                                                       *)
(***************************************************************************)
C14_DispatchOnExtension ==
    Processed =>
        LET typed == PathSuffix(hist.filename)
        IN  /\ hist.parser = "csv" <=> typed \in CsvSpellings
            /\ hist.parser = "json" <=> typed \in JsonSpellings
            /\ hist.parser = "pdf" <=> typed \in PdfSpellings
            /\ hist.parser = "excel" <=> typed \in ExcelSpellings
            /\ hist.parser = "none" => IsNone(result)

\* A CSV file named a.PDF went to the PDF parser.
C14_Witness ==
    /\ Processed
    /\ hist.filename = <<"a">> \o UpperPdf
    /\ hist.file.kind = "csv"
    /\ hist.parser = "pdf"

Normalized(name) ==
    /\ \A i \in 1..Len(name) : name[i] \notin {" ", "-"}
    /\ name = Strip(name)

C16_ColumnNamesNormalized ==
    (Processed /\ IsFrame(result)) =>
        \A i \in 1..Len(result.columns) : Normalized(result.columns[i])

(***************************************************************************)
(* C17: the column names of every table process_file returns are unique    *)
(* after normalization: source columns whose names differ only by space,   *)
(* hyphen, underscore or surrounding whitespace never yield two columns of *)
(* the same name.                                                          *)
(***************************************************************************)
C17_ColumnNamesUnique ==
    (Processed /\ IsFrame(result)) => PairwiseDistinct(result.columns)

\* The PDF that the PDF parser read, and its tables with a header row and at
\* least one data row, as <<page number, table number>>.
PdfRead == Processed /\ hist.parser = "pdf" /\ ~Raised(hist.file.pdf)

TablesFound(pages) ==
    {pt \in (1..Len(pages)) \X (1..3) :
        /\ pt[2] <= Len(pages[pt[1]].tables)
        /\ Len(pages[pt[1]].tables[pt[2]]) >= 2}

(***************************************************************************)
(* C18: PDF ingestion short-circuits on tables: when a page yields a table *)
(* with a header row and at least one data row, the first such table, in   *)
(* page order then table order within the page, is the result, and the     *)
(* text of that page and of earlier pages is discarded.                    *)
(***************************************************************************)
C18_FirstTableIsResult ==
    (PdfRead /\ TablesFound(hist.file.pdf.pages) /= {}) =>
        LET pages == hist.file.pdf.pages
            found == TablesFound(pages)
            first == CHOOSE pt \in found :
                        \A other \in found :
                            \/ pt[1] < other[1]
                            \/ pt[1] = other[1] /\ pt[2] <= other[2]
            table == pages[first[1]].tables[first[2]]
        IN  /\ IsFrame(result)
            /\ Len(result.columns) = Len(table[1]) + 2
            /\ SubSeq(result.columns, 1, Len(table[1])) = table[1]
            /\ Len(result.rows) = Len(table) - 1

(***************************************************************************)
(* C19 as stated: when no page yields a table, process_file returns one    *)
(* row per page holding page number, extracted text, page width and page   *)
(* height; when the PDF has neither a table nor text on any page it fails. *)
(***************************************************************************)
AnyText(pages) == \E p \in 1..Len(pages) : pages[p].text /= <<>>

C19_OneRowPerPage ==
    (PdfRead /\ TablesFound(hist.file.pdf.pages) = {}) =>
        LET pages == hist.file.pdf.pages
        IN  IF AnyText(pages)
            THEN /\ IsFrame(result)
                 /\ result.columns = <<PageCol, TextCol, PageWidthCol, PageHeightCol>>
                 /\ Len(result.rows) = Len(pages)
                 /\ \A p \in 1..Len(pages) : result.rows[p][1] = p
            ELSE IsNone(result)

(***************************************************************************)
(* C19 amended: when no page yields a table, process_file returns one row  *)
(* per page that has extracted text, in page order, holding page number,   *)
(* the trimmed text, page width and page height; pages without text        *)
(* contribute no row; without any text on any page it returns None.        *)
(***************************************************************************)
C19_OneRowPerTextPage ==
    (PdfRead /\ TablesFound(hist.file.pdf.pages) = {}) =>
        LET pages == hist.file.pdf.pages
            withText == {p \in 1..Len(pages) : pages[p].text /= <<>>}
        IN  IF withText /= {}
            THEN /\ IsFrame(result)
                 /\ result.columns = <<PageCol, TextCol, PageWidthCol, PageHeightCol>>
                 /\ Len(result.rows) = Cardinality(withText)
                 /\ {result.rows[k][1] : k \in 1..Len(result.rows)} = withText
                 /\ \A k \in 1..Len(result.rows) :
                       LET p == result.rows[k][1]
                       IN  /\ result.rows[k][2] = Strip(pages[p].text)
                           /\ result.rows[k][3] = pages[p].page_width
                           /\ result.rows[k][4] = pages[p].page_height
                           /\ \A l \in 1..(k - 1) : result.rows[l][1] < p
            ELSE IsNone(result)

\* A PDF of a blank page and a page of text, without tables: one row, for
\* page 2.
C19_Witness ==
    /\ PdfRead
    /\ Len(hist.file.pdf.pages) = 2
    /\ TablesFound(hist.file.pdf.pages) = {}
    /\ hist.file.pdf.pages[1].text = <<>>
    /\ hist.file.pdf.pages[2].text /= <<>>
    /\ IsFrame(result)
    /\ Len(result.rows) = 1
    /\ result.rows[1][1] = 2

(***************************************************************************)
(* C20: JSON ingestion of a single object that has list values takes the   *)
(* longest list among the object's values as the row set, one row per      *)
(* element; of several lists of the maximal length exactly one is taken.   *)
(***************************************************************************)
C20_LongestListSelected ==
    (/\ Processed
     /\ hist.parser = "json"
     /\ ~Raised(hist.file.json)
     /\ IsDict(hist.file.json)
     /\ \E i \in 1..Len(hist.file.json.members) : IsList(hist.file.json.members[i].value)) =>
        LET members == hist.file.json.members
            lists == {i \in 1..Len(members) : IsList(members[i].value)}
            longest == {i \in lists :
                          \A j \in lists :
                              Len(members[j].value.items) <= Len(members[i].value.items)}
        IN  /\ IsFrame(result)
            /\ \E i \in longest :
                  /\ Len(result.rows) = Len(members[i].value.items)
                  /\ result = CleanColumns(DataFrame(members[i].value.items))

(***************************************************************************)
(* C21: JSON ingestion accepts exactly three shapes: a sequence of objects *)
(* (one row per object), a single object with a longest list value, a      *)
(* single flat object (one row). Every other top-level shape (a scalar,    *)
(* null, a list of non-objects, an object whose only list values are       *)
(* empty) fails rather than producing a table.                             *)
(***************************************************************************)
JsonRead == Processed /\ hist.parser = "json" /\ ~Raised(hist.file.json)

Shape(data) ==
    IF IsList(data)
    THEN IF \A i \in 1..Len(data.items) : IsDict(data.items[i])
         THEN "objects" ELSE "other"
    ELSE IF IsDict(data)
    THEN IF \A i \in 1..Len(data.members) : ~IsList(data.members[i].value)
         THEN "flat"
         ELSE IF \E i \in 1..Len(data.members) :
                    /\ IsList(data.members[i].value)
                    /\ data.members[i].value.items /= <<>>
         THEN "longest list"
         ELSE "other"
    ELSE "other"

C21_ThreeShapesOnly ==
    JsonRead =>
        LET data == hist.file.json
        IN  CASE Shape(data) = "objects" ->
                    IsFrame(result) /\ Len(result.rows) = Len(data.items)
              [] Shape(data) = "flat" ->
                    IsFrame(result) /\ Len(result.rows) = 1
              [] Shape(data) = "longest list" -> IsFrame(result)
              [] OTHER -> IsNone(result)

(***************************************************************************)
(* C22: Excel ingestion: a workbook of exactly one sheet loads that sheet; *)
(* a workbook of several sheets loads the first sheet, in workbook order,  *)
(* that has at least one row; a workbook of several sheets that are all    *)
(* empty fails and never returns the last sheet read.                      *)
(***************************************************************************)
ExcelRead == Processed /\ hist.parser = "excel" /\ ~Raised(hist.file.excel)

C22_FirstSheetWithRows ==
    ExcelRead =>
        LET sheets == hist.file.excel.sheets
            withRows == {i \in 1..Len(sheets) : sheets[i].rows /= <<>>}
        IN  IF Len(sheets) = 1
            THEN result = CleanColumns(sheets[1])
            ELSE IF withRows /= {}
            THEN \E i \in withRows :
                    /\ \A j \in withRows : i <= j
                    /\ result = CleanColumns(sheets[i])
            ELSE IsNone(result)

\* A workbook of an empty sheet followed by a sheet with a row: the second
\* sheet is the result.
C22_Witness ==
    /\ ExcelRead
    /\ Len(hist.file.excel.sheets) = 2
    /\ hist.file.excel.sheets[1].rows = <<>>
    /\ hist.file.excel.sheets[2].rows /= <<>>
    /\ IsFrame(result)
    /\ result.rows = hist.file.excel.sheets[2].rows

\* A workbook of two empty sheets: no sheet is returned.
C22_AllEmptyFails ==
    (ExcelRead /\ Len(hist.file.excel.sheets) > 1
       /\ \A i \in 1..Len(hist.file.excel.sheets) : hist.file.excel.sheets[i].rows = <<>>)
    => IsNone(result)

(***************************************************************************)
(* C26: a successful get_table_data(t, limit, offset) returns the table's  *)
(* column-name list in 'columns' for every page, also when the page holds  *)
(* no rows (offset at or beyond total_count, limit 0, or an empty table).  *)
(***************************************************************************)
C26_ColumnsOnEveryPage ==
    (hist.op = "paginate" /\ result.success) =>
        result.columns = tables[Resolve(KeyOf(hist.name))].columns

(***************************************************************************)
(* LLMService (backend/app/llm_service.py)                                 *)
(*                                                                         *)
(* The text of a summary is drawn at random from phrase lists; a summary   *)
(* is modelled by the generator that wrote it and the size category it     *)
(* was written for.                                                        *)
(***************************************************************************)
\* os.getenv("LLM_PROVIDER", "mock").lower()
LowerProvider(value) ==
    CASE value = "OpenAI" -> "openai"
      [] value = "MOCK" -> "mock"
      [] OTHER -> value

\* _categorize_dataset_size
CategorizeDatasetSize(rows) ==
    IF rows < 100 THEN "small"
    ELSE IF rows < 10000 THEN "medium"
    ELSE "large"

\* The _generate_*_summary method _enhanced_mock_summary calls.
GeneratorFor(summary_type) ==
    IF summary_type \in {"overview", "statistical", "insights", "business"}
    THEN summary_type
    ELSE "general"

\* _enhanced_mock_summary: data_info.get(...) raises on None.
EnhancedMockSummary(request) ==
    IF IsNone(request.data_info)
    THEN Raise("AttributeError")
    ELSE [success |-> TRUE,
          summary |-> [generator |-> GeneratorFor(request.summary_type),
                       size |-> CategorizeDatasetSize(request.data_info.row_count)],
          summary_type |-> request.summary_type,
          provider |-> "enhanced_mock",
          model |-> "ai-enhanced-mock"]

\* _openai_summary: _build_enhanced_prompt and requests.post inside try; any
\* exception and any status but 200 fall back to _enhanced_mock_summary,
\* called in the except clause.
OpenaiSummary(request, http, model) ==
    IF ~IsNone(request.data_info) /\ http = "200"
    THEN [success |-> TRUE,
          summary |-> [generator |-> "openai", size |-> "n/a"],
          summary_type |-> request.summary_type,
          provider |-> "openai",
          model |-> model]
    ELSE EnhancedMockSummary(request)

\* The methods the class defines among those generate_summary calls.
DefinedMethods == {"_enhanced_mock_summary", "_openai_summary"}

\* self.<method>(request): AttributeError when the class has no such method.
CallMethod(method, request, http, model) ==
    IF method \notin DefinedMethods THEN Raise("AttributeError")
    ELSE IF method = "_openai_summary" THEN OpenaiSummary(request, http, model)
    ELSE EnhancedMockSummary(request)

\* if request.summary_type == "general": request.summary_type = "overview"
NormalizeSummaryType(request) ==
    IF request.summary_type = "general"
    THEN [request EXCEPT !.summary_type = "overview"]
    ELSE request

\* LLMService.generate_summary
GenerateSummary(provider, request, http, model) ==
    LET req == NormalizeSummaryType(request)
        method == CASE provider = "mock" -> "_enhanced_mock_summary"
                    [] provider = "openai" -> "_openai_summary"
                    [] provider = "ollama" -> "_ollama_summary"
                    [] provider = "local" -> "_local_summary"
                    [] provider = "gemini" -> "_gemini_summary"
                    [] OTHER -> "_enhanced_mock_summary"
    IN  CallMethod(method, req, http, model)

\* Values of LLM_PROVIDER, summary types, data_info and what the OpenAI
\* endpoint does.
ProviderValues == {"mock", "MOCK", "openai", "OpenAI", "ollama", "local", "gemini", "claude"}
SummaryTypes == {"general", "overview", "statistical", "insights", "business", "custom"}
DataInfos ==
    {[row_count |-> n, column_count |-> 1, columns |-> <<"x">>] :
        n \in {0, 99, 100, 9999, 10000}}
HttpOutcomes == {"200", "401", "timeout", "malformed body"}
DefaultModel == "llama2:7b-chat"

(***************************************************************************)
(* Specification SpecSummary: generate_summary called once for every       *)
(* provider, request and answer of the provider                            *)
(***************************************************************************)
SummaryInit ==
    /\ tables = EmptyDb
    /\ creator = EmptyDb
    /\ result = NoResult
    /\ sIn = <<>>
    /\ sOut = <<>>
    /\ sOut2 = <<>>
    /\ sPc = "start"
    /\ ApiIdle
    /\ \E value \in ProviderValues, summary_type \in SummaryTypes, http \in HttpOutcomes :
          \/ \E data_info \in DataInfos :
                hist = [op |-> "SummaryRequest", provider |-> LowerProvider(value),
                        configured |-> value, http |-> http,
                        request |-> [summary_type |-> summary_type, data_info |-> data_info]]
          \/ hist = [op |-> "SummaryRequest", provider |-> LowerProvider(value),
                     configured |-> value, http |-> http,
                     request |-> [summary_type |-> summary_type, data_info |-> None]]

Summarize ==
    /\ hist.op = "SummaryRequest"
    /\ result' = GenerateSummary(hist.provider, hist.request, hist.http, DefaultModel)
    /\ hist' = [hist EXCEPT !.op = "generate_summary"]
    /\ UNCHANGED <<tables, creator, sanitizeVars, apiVars>>

SummaryNext == Summarize

SpecSummary == SummaryInit /\ [][SummaryNext]_vars

(***************************************************************************)
(* C30: for every configured provider value (mock, openai, ollama, local,  *)
(* gemini, or any unknown string) and every summary type, generate_summary *)
(* returns a SummaryResponse, falling back to the enhanced mock summary    *)
(* when the provider is unknown or its call fails, and never raises.       *)
(***************************************************************************)
C30_AlwaysSummaryResponse ==
    (hist.op = "generate_summary" /\ ~IsNone(hist.request.data_info)) =>
        /\ ~Raised(result)
        /\ result.success
        /\ (hist.provider \notin {"mock", "openai", "ollama", "local", "gemini"})
              => result.provider = "enhanced_mock"
        /\ (hist.provider = "openai" /\ hist.http /= "200")
              => result.provider = "enhanced_mock"

(***************************************************************************)
(* The HTTP endpoints (backend/app/main.py)                                *)
(***************************************************************************)
\* os.path.splitext(p): the extension starts at the last dot of the last
\* path component, unless only dots precede it there.
SplitExt(p) ==
    LET sep == LastIndexOf(p, "/")
        dot == LastIndexOf(p, ".")
    IN  IF dot > sep /\ \E i \in (sep + 1)..(dot - 1) : p[i] /= "."
        THEN [root |-> SubSeq(p, 1, dot - 1), ext |-> SubSeq(p, dot, Len(p))]
        ELSE [root |-> p, ext |-> <<>>]

AllowedExtensions == {ExtCsv, ExtJson, ExtPdf, ExtXlsx, ExtXls}

\* raise HTTPException(status_code, detail): the body FastAPI sends
HttpException(status_code, detail) ==
    [status |-> status_code, body |-> [detail |-> detail]]

\* What the disk does while the upload is written: open and write succeed,
\* open(file_path, 'wb') raises, or open creates the file and the write raises.
DiskOutcomes == {"ok", "open fails", "write fails"}

\* save_uploaded_file: the upload directory afterwards, or the exception
\* the method re-raises; dir is what the directory holds when it raises.
SaveUploadedFile(dir, filename, disk) ==
    CASE disk = "ok" -> [dir |-> dir \cup {filename}]
      [] disk = "open fails" -> [raised |-> "OSError", dir |-> dir]
      [] OTHER -> [raised |-> "OSError", dir |-> dir \cup {filename}]

\* cleanup_file: os.remove when the path exists
CleanupFile(dir, file_path) == dir \ {file_path}

\* get_file_info, the fields the endpoint reads
GetFileInfo(df) ==
    [row_count |-> Len(df.rows), column_count |-> Len(df.columns),
     columns |-> df.columns]

\* The dtype pandas gives each column; columns whose type was not recorded
\* hold integers.
Dtypes(df) ==
    IF "dtypes" \in DOMAIN df THEN df.dtypes
    ELSE [j \in 1..Len(df.columns) |-> "number"]

\* df[col].nunique()
Nunique(df, j) == Cardinality({df.rows[i][j] : i \in 1..Len(df.rows)})

\* generate_graphical_analysis: the list of plot metadata dicts it returns,
\* {column, type, url}: hist, box and line per numeric column, a scatter of
\* the first two numeric columns, bar and pie per object column of at most
\* 20 distinct values.
GenerateGraphicalAnalysis(df) ==
    LET indices == [j \in 1..Len(df.columns) |-> j]
        numeric_cols == SelectSeq(indices, LAMBDA j : Dtypes(df)[j] = "number")
        cat_cols == SelectSeq(indices,
                              LAMBDA j : /\ Dtypes(df)[j] \in {"object", "category"}
                                         /\ Nunique(df, j) <= 20)
        Plots(cols, type) ==
            [k \in 1..Len(cols) |-> [column |-> df.columns[cols[k]], type |-> type]]
        scatter ==
            IF Len(numeric_cols) >= 2
            THEN <<[column |-> df.columns[numeric_cols[1]] \o <<" ", "v", "s", " ">>
                                  \o df.columns[numeric_cols[2]],
                    type |-> "scatter"]>>
            ELSE <<>>
    IN  Plots(numeric_cols, "hist") \o Plots(numeric_cols, "box") \o scatter
        \o Plots(numeric_cols, "line") \o Plots(cat_cols, "bar") \o Plots(cat_cols, "pie")

\* ["/static/plots/" + os.path.basename(p) for p in plot_files]: p is a
\* dict, os.path.basename(p) raises TypeError.
PlotUrls(plot_files) ==
    IF plot_files = <<>> THEN [urls |-> <<>>] ELSE Raise("TypeError")

\* POST /upload. db, dir: the database and the upload directory before the
\* request. Returns both afterwards, the response, the frame process_file
\* returned and whether create_table_from_dataframe reported success.
UploadFile(db, dir, filename, file, disk) ==
    LET file_extension == SuffixLower(SplitExt(filename).ext)
        saved == SaveUploadedFile(dir, filename, disk)
        df == ProcessFile(file, filename).value
        usable == ~IsNone(df) /\ ~Empty(df)
        table_name == SplitExt(filename).root
        stored == CreateTableFromDataframe(db, df, table_name)
        file_info == GetFileInfo(df)
        plot_urls == IF file_extension = ExtCsv
                     THEN PlotUrls(GenerateGraphicalAnalysis(df))
                     ELSE [urls |-> <<>>]
        cleaned == CleanupFile(saved.dir, filename)
    IN  IF file_extension \notin AllowedExtensions
        THEN [db |-> db, dir |-> dir, df |-> None, stored |-> FALSE,
              response |-> HttpException(400, "Unsupported file type")]
        ELSE IF Raised(saved)
        THEN [db |-> db, dir |-> saved.dir, df |-> None, stored |-> FALSE,
              response |-> HttpException(500, saved.raised)]
        ELSE IF ~usable
        THEN [db |-> db, dir |-> cleaned, df |-> None, stored |-> FALSE,
              response |-> HttpException(400, "Failed to process file or file is empty")]
        ELSE IF ~stored.result.success
        THEN [db |-> stored.db, dir |-> cleaned, df |-> df, stored |-> FALSE,
              response |-> HttpException(500, "Failed to store data in database")]
        ELSE IF Raised(plot_urls)
        THEN [db |-> stored.db, dir |-> cleaned, df |-> df, stored |-> TRUE,
              response |-> HttpException(500, plot_urls.raised)]
        ELSE [db |-> stored.db, dir |-> cleaned, df |-> df, stored |-> TRUE,
              response |->
                  [status |-> 200,
                   body |-> [success |-> TRUE,
                             table_name |-> stored.result.table_name,
                             row_count |-> file_info.row_count,
                             columns |-> file_info.columns,
                             message |-> [uploaded |-> filename,
                                          rows |-> file_info.row_count]]]]

\* POST /query: a failure of the store is raised as HTTPException(400).
QueryEndpoint(db, query, wrapped) ==
    LET r == ExecuteQuery(db, query, wrapped)
    IN  [db |-> r.db,
         store_failed |-> ~r.result.success,
         response |->
             IF ~r.result.success
             THEN HttpException(400, r.result.error)
             ELSE [status |-> 200,
                   body |-> [success |-> TRUE,
                             data |-> IF "data" \in DOMAIN r.result
                                      THEN r.result.data ELSE <<>>,
                             columns |-> IF "columns" \in DOMAIN r.result
                                         THEN r.result.columns ELSE <<>>,
                             row_count |-> IF "row_count" \in DOMAIN r.result
                                           THEN r.result.row_count ELSE 0]]]

\* LLM_PROVIDER is not set: os.getenv("LLM_PROVIDER", "mock")
ConfiguredProvider == LowerProvider("mock")

\* POST /summarize with a body that validates as SummaryRequest: a failure
\* of get_table_data is raised as HTTPException(404), an empty page as 400,
\* an exception of generate_summary as 500.
SummarizeEndpoint(db, request) ==
    LET table_data == GetTableData(db, request.table_name, request.sample_size,
                                   DefaultOffset)
        data_info == [row_count |-> table_data.total_count,
                      column_count |-> Len(table_data.columns),
                      columns |-> table_data.columns]
        summary_response ==
            GenerateSummary(ConfiguredProvider,
                            [summary_type |-> request.summary_type,
                             data_info |-> data_info],
                            "200", DefaultModel)
    IN  [store_called |-> TRUE,
         store_failed |-> ~table_data.success,
         response |->
             IF ~table_data.success
             THEN HttpException(404, "Table not found or error accessing data")
             ELSE IF table_data.data = <<>>
             THEN HttpException(400, "No data available for summarization")
             ELSE IF Raised(summary_response)
             THEN HttpException(500, summary_response.raised)
             ELSE [status |-> 200,
                   body |-> [success |-> TRUE,
                             summary |-> summary_response.summary,
                             summary_type |-> summary_response.summary_type,
                             provider |-> summary_response.provider,
                             model |-> summary_response.model]]]

\* POST /summarize with a body that has no table_name: the required field
\* fails validation and the handler is not entered.
SummarizeInvalid ==
    [store_called |-> FALSE,
     store_failed |-> FALSE,
     response |-> HttpException(422, "Field required")]

ChatBranches == {"summary", "graph", "sql", "fallback"}

ChatText(text) == [status |-> 200, body |-> [type |-> "text", text |-> text]]

\* POST /api/chat, by the branch the message's keywords select. Every
\* branch takes tables[-1]["name"] of list_tables(). The summary branches
\* call generate_summary on a SummaryRequest without data_info inside
\* try/except; the graph branch runs outside any try.
ChatEndpoint(db, branch) ==
    LET listed == ListTables(db)
        table_name == listed[Len(listed)].name
        req == [summary_type |-> "general", data_info |-> None]
        summary == GenerateSummary(ConfiguredProvider, req, "200", DefaultModel)
        table_data == GetTableData(db, table_name, 1000, DefaultOffset)
        stored == db[Resolve(CleanTableName(table_name))]
        df == [columns |-> table_data.columns, rows |-> table_data.data,
               dtypes |-> Dtypes(stored)]
        plot_urls == PlotUrls(GenerateGraphicalAnalysis(df))
    IN  IF listed = <<>>
        THEN [table_name |-> None, response |-> ChatText("No data available")]
        ELSE [table_name |-> [chosen |-> table_name],
              response |->
                  CASE branch = "sql" ->
                         [status |-> 200,
                          body |-> [type |-> "sql", sql |-> table_name]]
                    [] branch = "graph" ->
                         IF ~table_data.success \/ table_data.data = <<>>
                         THEN ChatText("No data found in the table for plotting.")
                         ELSE IF Raised(plot_urls)
                         THEN [status |-> 500, body |-> "Internal Server Error"]
                         ELSE [status |-> 200,
                               body |-> [type |-> "graph", plot_urls |-> plot_urls.urls]]
                    [] OTHER ->
                         IF Raised(summary)
                         THEN ChatText("Sorry, I couldn't process your request.")
                         ELSE [status |-> 200,
                               body |-> [type |-> "text", text |-> summary.summary]]]

(***************************************************************************)
(* Requests                                                                *)
(***************************************************************************)
JsonName(stem) == stem \o ExtJson

\* "At a!.CSV" is cleaned to at_a_.
ApiFilenames ==
    {JsonName(<<"a">>), JsonName(<<"b">>),
     <<"A", "t", " ", "a", "!">> \o UpperCsv, <<"a">> \o ExtTxt}

ApiTableNames == {<<"a">>, <<"b">>, <<"a", "t", "_", "a", "_">>}

CsvFile(columns, n, dtypes) ==
    [kind |-> "csv", utf8 |-> TRUE,
     csv |-> [columns |-> columns, rows |-> RowsOf(columns, n), dtypes |-> dtypes],
     json |-> NotJson, pdf |-> NotPdf, excel |-> NotExcel]

\* CSV files: three numeric columns and five rows; one column of booleans;
\* two headers that clean to one name; a header without rows.
ApiCsvFiles ==
    {CsvFile(<< <<"a">>, <<"b">>, <<"a", " ", "b">> >>, 5, <<"number", "number", "number">>),
     CsvFile(<< <<"b">> >>, 1, <<"bool">>),
     CsvFile(<< <<"a", " ", "b">>, <<"a", "-", "b">> >>, 1, <<"number", "object">>),
     CsvFile(<< <<"a">> >>, 0, <<"object">>)}

\* A JSON file: a list of two objects.
ApiJsonFiles ==
    {[kind |-> "json", utf8 |-> TRUE, csv |-> [columns |-> << <<"{">> >>, rows |-> <<>>],
      json |-> ListOf(<<"a">>, 2), pdf |-> NotPdf, excel |-> NotExcel]}

SummaryRequests ==
    [table_name : {<<"a">>, <<"b">>}, sample_size : {100}, summary_type : {"general"}]

(***************************************************************************)
(* Specification SpecApi: the endpoints, and delete_table, called in any   *)
(* order                                                                   *)
(***************************************************************************)
\* The physical name key becomes the table written last.
WrittenLast(order, key) == SelectSeq(order, LAMBDA k : k /= key) \o <<key>>

UploadStep(filename, file, disk) ==
    \E r \in {UploadFile(tables, uploadDir, filename, file, disk)} :
        /\ Cardinality(DOMAIN r.db) <= MaxTables
        /\ tables' = r.db
        /\ uploadDir' = r.dir
        /\ uploadOrder' = IF r.stored
                          THEN WrittenLast(uploadOrder,
                                           CleanTableName(SplitExt(filename).root))
                          ELSE uploadOrder
        /\ result' = r.response
        /\ hist' = [op |-> "upload", filename |-> filename, file |-> file,
                    disk |-> disk, df |-> r.df, stored |-> r.stored]
        /\ UNCHANGED <<creator, sanitizeVars, reader>>

Upload ==
    \E filename \in ApiFilenames, disk \in DiskOutcomes :
        \/ \E file \in ApiCsvFiles : UploadStep(filename, file, disk)
        \/ \E file \in ApiJsonFiles : UploadStep(filename, file, disk)

Query ==
    \E query \in Statements :
        \E engine_error \in {EngineExecute(tables, query).error} :
            \E wrapped \in IF engine_error = NoError THEN {TRUE} ELSE BOOLEAN :
                \E r \in {QueryEndpoint(tables, query, wrapped)} :
                    /\ tables' = r.db
                    /\ uploadOrder' = SelectSeq(uploadOrder, LAMBDA k : k \in DOMAIN r.db)
                    /\ result' = r.response
                    /\ hist' = [op |-> "query", query |-> query,
                                store_called |-> TRUE,
                                store_failed |-> r.store_failed]
                    /\ UNCHANGED <<creator, sanitizeVars, uploadDir, reader>>

SummarizeStep(request, r) ==
    /\ result' = r.response
    /\ hist' = [op |-> "summarize", request |-> request,
                store_called |-> r.store_called, store_failed |-> r.store_failed]
    /\ UNCHANGED <<tables, creator, sanitizeVars, apiVars>>

ApiSummarize ==
    \/ \E request \in SummaryRequests :
          SummarizeStep(request, SummarizeEndpoint(tables, request))
    \/ SummarizeStep([sample_size |-> 100, summary_type |-> "general"],
                     SummarizeInvalid)

Chat ==
    \E branch \in ChatBranches :
        \E r \in {ChatEndpoint(tables, branch)} :
            /\ result' = r.response
            /\ hist' = [op |-> "chat", branch |-> branch, table_name |-> r.table_name]
            /\ UNCHANGED <<tables, creator, sanitizeVars, apiVars>>

\* DatabaseManager.delete_table, called beside the endpoints
ApiDelete ==
    \E table_name \in ApiTableNames :
        \E r \in {DeleteTable(tables, table_name)} :
            /\ tables' = r.db
            /\ uploadOrder' = SelectSeq(uploadOrder, LAMBDA k : k \in DOMAIN r.db)
            /\ result' = r.result
            /\ hist' = [op |-> "delete_table", name |-> table_name]
            /\ UNCHANGED <<creator, sanitizeVars, uploadDir, reader>>

ApiNext == Upload \/ Query \/ ApiSummarize \/ Chat \/ ApiDelete

SpecApi == Init /\ [][ApiNext]_vars

Uploaded == hist.op = "upload"

(***************************************************************************)
(* C23: on every exit path of an upload request (success, unsupported or   *)
(* empty file, store failure, post-processing exception, an exception of   *)
(* the save itself), the file written to the upload directory for that     *)
(* request no longer exists when the request completes.                    *)
(***************************************************************************)
C23_ScratchFileRemoved ==
    Uploaded => hist.filename \notin uploadDir

\* The same for the requests whose file was saved without an exception:
\* from there on every exit passes through the finally clause.
C23_RemovedOnceSaved ==
    (Uploaded /\ hist.disk = "ok") => hist.filename \notin uploadDir

\* A request that stored the table and failed afterwards, its file removed.
C23_FailureAfterSave ==
    /\ Uploaded /\ hist.disk = "ok" /\ hist.stored
    /\ result.status = 500
    /\ hist.filename \notin uploadDir

(***************************************************************************)
(* C24: for every upload whose file parses to a non-empty table and is     *)
(* stored successfully, the endpoint returns a success response carrying   *)
(* the sanitized table name, the row count, the cleaned column names and a *)
(* message.                                                                *)
(***************************************************************************)
C24_StoredUploadSucceeds ==
    (Uploaded /\ hist.stored) =>
        /\ result.status = 200
        /\ result.body.success
        /\ result.body.table_name = CleanTableName(SplitExt(hist.filename).root)
        /\ result.body.row_count = Len(hist.df.rows)
        /\ result.body.columns = hist.df.columns
        /\ "message" \in DOMAIN result.body

\* What does hold: an upload that is answered with 200 carries these fields.
C24_SuccessCarriesFields ==
    (Uploaded /\ result.status = 200) =>
        /\ hist.stored
        /\ result.body.success
        /\ result.body.table_name = CleanTableName(SplitExt(hist.filename).root)
        /\ result.body.row_count = Len(hist.df.rows)
        /\ result.body.columns = hist.df.columns
        /\ "message" \in DOMAIN result.body

(***************************************************************************)
(* C25: when execute or paginate returns a failure, the endpoint's         *)
(* response body has success = false and an error message, and a request   *)
(* lacking a table_name is rejected before the store is called.            *)
(***************************************************************************)
C25_UniformEnvelope ==
    /\ (hist.op \in {"query", "summarize"} /\ hist.store_failed) =>
          /\ "success" \in DOMAIN result.body
          /\ "error" \in DOMAIN result.body
          /\ ~result.body.success
    /\ (hist.op = "summarize" /\ "table_name" \notin DOMAIN hist.request) =>
          /\ ~hist.store_called
          /\ result.status /= 200

\* The second half alone: no table_name, no call of the store.
C25_MissingNameRejected ==
    (hist.op = "summarize" /\ "table_name" \notin DOMAIN hist.request) =>
        /\ ~hist.store_called
        /\ result.status /= 200

(***************************************************************************)
(* C27: whenever the upload endpoint answers with an error status (400 or  *)
(* 500), the table store is unchanged by that request: no table was        *)
(* created or replaced.                                                    *)
(***************************************************************************)
C27_ErrorLeavesStore ==
    [][(hist'.op = "upload" /\ result'.status \in {400, 500}) => tables' = tables]_vars

\* What does hold: a 400 leaves the store as it was.
C27_BadRequestLeavesStore ==
    [][(hist'.op = "upload" /\ result'.status = 400) => tables' = tables]_vars

(***************************************************************************)
(* C28: after any sequence of uploads and deletes with at least one table  *)
(* remaining, the table name the chat endpoint chooses (the last element   *)
(* of list_tables) is the one written last, regardless of table names.     *)
(***************************************************************************)
C28_ChatUsesLastWritten ==
    (hist.op = "chat" /\ uploadOrder /= <<>>) =>
        /\ ~IsNone(hist.table_name)
        /\ hist.table_name.chosen = uploadOrder[Len(uploadOrder)]

\* What the code does: the name that sorts last.
C28_ChatUsesLastSorted ==
    (hist.op = "chat" /\ tables /= EmptyDb) =>
        \A k \in DOMAIN tables :
            k = hist.table_name.chosen \/ NameLess(k, hist.table_name.chosen)

(***************************************************************************)
(* get_table_data and get_table_info, statement by statement               *)
(*                                                                         *)
(* Each call opens one connection ("with self.engine.connect() as conn")   *)
(* and runs its statements on it. The connection begins a transaction at   *)
(* its first statement and keeps it until it is closed; the engine gives a *)
(* transaction the database as committed when it started (snapshot         *)
(* isolation). The same holds for execute_query, whose writes are rolled   *)
(* back for that reason (ConnectionClose).                                 *)
(***************************************************************************)
\* The database a statement of a transaction reads, committed being what
\* other connections have committed by now: each statement reads the latest
\* commit.
VisibleLatest(snapshot, committed) == committed

\* The database a statement of a transaction reads: the transaction's
\* snapshot.
Visible(snapshot, committed) == snapshot

ReadName == <<"a">>

\* The calls that read: two pages of one row, and the description.
ReadCalls ==
    {[op |-> "paginate", name |-> ReadName, limit |-> 1, offset |-> o] : o \in 0..1}
    \cup {[op |-> "describe", name |-> ReadName, limit |-> 0, offset |-> 0]}

\* The frames concurrent callers store under the name: two rows, one other
\* row, two columns.
WrittenFrames ==
    {[columns |-> ColsX, rows |-> <<1, 2>>],
     [columns |-> ColsX, rows |-> <<9>>],
     [columns |-> ColsXY, rows |-> <<1>>]}

WriteStatements == [kind : {"INSERT", "DELETE", "DROP"}, table : {ReadName}]

\* The name as the call interpolates it: get_table_data sanitizes it,
\* get_table_info does not.
ReadTarget(call) ==
    IF call.op = "paginate" THEN CleanTableName(call.name) ELSE call.name

\* The call has opened its connection; no statement has run.
Connected(call, db) ==
    [pc |-> IF call.op = "paginate" THEN "count" ELSE "schema",
     call |-> call, began |-> FALSE, snapshot |-> db, seen |-> {db},
     overtaken |-> FALSE, schema |-> <<>>, count |-> 0]

\* The transaction's snapshot: taken at its first statement.
SnapshotOf(rd, db) == IF rd.began THEN rd.snapshot ELSE db

\* What the statement now running reads.
ViewOf(rd, db) == Visible(SnapshotOf(rd, db), db)

\* except Exception: the failure value of the call
ReadFailure(call, err) ==
    IF call.op = "paginate" THEN [success |-> FALSE, error |-> err]
    ELSE [error |-> err]

InCall == reader.pc \notin {"idle", "done"}

\* History: another connection commits db while the call is in progress.
Observe(rd, db) ==
    IF rd.pc \in {"idle", "done"} THEN rd
    ELSE [rd EXCEPT !.seen = @ \cup {db},
                    !.overtaken = @ \/ (rd.began /\ db /= tables)]

\* A statement whose table reference fails ends the call.
StatementFails(err) ==
    /\ result' = ReadFailure(reader.call, err)
    /\ reader' = [reader EXCEPT !.pc = "done", !.began = TRUE,
                                !.snapshot = SnapshotOf(reader, tables)]

ReadBegin ==
    /\ ~InCall
    /\ \E call \in ReadCalls :
          /\ reader' = Connected(call, tables)
          /\ hist' = [op |-> "read", call |-> call]
    /\ result' = NoResult
    /\ UNCHANGED <<tables, creator, sanitizeVars, uploadDir, uploadOrder>>

\* DESCRIBE {table_name}
ReadSchema ==
    /\ reader.pc = "schema"
    /\ LET view == ViewOf(reader, tables)
           err == ReferenceError(view, ReadTarget(reader.call))
           t == view[Resolve(ReadTarget(reader.call))]
       IN  IF err /= NoError
           THEN StatementFails(err)
           ELSE /\ reader' = [reader EXCEPT
                                 !.pc = "count", !.began = TRUE,
                                 !.snapshot = SnapshotOf(reader, tables),
                                 !.schema = [i \in 1..Len(t.columns) |->
                                                [column_name |-> t.columns[i],
                                                 column_type |-> "BIGINT"]]]
                /\ UNCHANGED result
    /\ UNCHANGED <<tables, creator, hist, sanitizeVars, uploadDir, uploadOrder>>

\* SELECT COUNT(*) as count FROM {table}
ReadCount ==
    /\ reader.pc = "count"
    /\ LET view == ViewOf(reader, tables)
           err == ReferenceError(view, ReadTarget(reader.call))
           t == view[Resolve(ReadTarget(reader.call))]
       IN  IF err /= NoError
           THEN StatementFails(err)
           ELSE /\ reader' = [reader EXCEPT
                                 !.pc = IF reader.call.op = "paginate"
                                        THEN "data" ELSE "sample",
                                 !.began = TRUE,
                                 !.snapshot = SnapshotOf(reader, tables),
                                 !.count = Len(t.rows)]
                /\ UNCHANGED result
    /\ UNCHANGED <<tables, creator, hist, sanitizeVars, uploadDir, uploadOrder>>

\* SELECT * FROM {clean_table_name} LIMIT {limit} OFFSET {offset}, and the
\* dict get_table_data returns
ReadData ==
    /\ reader.pc = "data"
    /\ LET view == ViewOf(reader, tables)
           err == ReferenceError(view, ReadTarget(reader.call))
           t == view[Resolve(ReadTarget(reader.call))]
           data == PageRows(t.rows, reader.call.limit, reader.call.offset)
       IN  IF err /= NoError
           THEN StatementFails(err)
           ELSE /\ result' = [success |-> TRUE,
                              data |-> data,
                              columns |-> IF data /= <<>> THEN t.columns ELSE <<>>,
                              total_count |-> reader.count,
                              limit |-> reader.call.limit,
                              offset |-> reader.call.offset,
                              has_more |-> HasMore(reader.call.offset, reader.call.limit,
                                                   reader.count)]
                /\ reader' = [reader EXCEPT !.pc = "done"]
    /\ UNCHANGED <<tables, creator, hist, sanitizeVars, uploadDir, uploadOrder>>

\* SELECT * FROM {table_name} LIMIT 5, and the dict get_table_info returns
ReadSample ==
    /\ reader.pc = "sample"
    /\ LET view == ViewOf(reader, tables)
           err == ReferenceError(view, ReadTarget(reader.call))
           t == view[Resolve(ReadTarget(reader.call))]
       IN  IF err /= NoError
           THEN StatementFails(err)
           ELSE /\ result' = [schema |-> reader.schema,
                              row_count |-> reader.count,
                              sample_data |-> Head5(t.rows),
                              columns |-> [i \in 1..Len(reader.schema) |->
                                              reader.schema[i].column_name]]
                /\ reader' = [reader EXCEPT !.pc = "done"]
    /\ UNCHANGED <<tables, creator, hist, sanitizeVars, uploadDir, uploadOrder>>

\* Another caller's write, committed at once or not at all.
Commits(db) ==
    /\ tables' = db
    /\ reader' = Observe(reader, db)
    /\ UNCHANGED <<creator, hist, result, sanitizeVars, uploadDir, uploadOrder>>

\* create_table_from_dataframe by another caller
WriterCreate ==
    \E df \in WrittenFrames : Commits(CreateTableFromDataframe(tables, df, ReadName).db)

\* delete_table by another caller
WriterDelete == Commits(DeleteTable(tables, ReadName).db)

\* execute_query of a write statement by another caller
WriterExecute ==
    \E query \in WriteStatements : Commits(ExecuteQuery(tables, query, TRUE).db)

ConcurrentNext ==
    \/ ReadBegin \/ ReadSchema \/ ReadCount \/ ReadData \/ ReadSample
    \/ WriterCreate \/ WriterDelete \/ WriterExecute

SpecConcurrent == Init /\ [][ConcurrentNext]_vars

\* What the call returns when nothing else runs while it does.
SingleState(db, call) ==
    IF call.op = "paginate"
    THEN GetTableData(db, call.name, call.limit, call.offset)
    ELSE GetTableInfo(db, call.name)

====
